---- MODULE Spec2Model ----
(***************************************************************************)
(* pretix-cliques: the raffle (run_raffle) and the bulk rejection          *)
(* (run_rejection) of src/pretix_cliques/tasks.py, over the order data of  *)
(* src/pretix_cliques/models.py.                                           *)
(*                                                                         *)
(* The database is the state: per order its status, require_approval, its  *)
(* positions, its clique membership (OrderClique) and its raffle override  *)
(* (OrderRaffleOverride).  A task run is a record of the task's local      *)
(* variables and its position in the code.                                 *)
(***************************************************************************)
EXTENDS Integers, Sequences, FiniteSets, TLC

\* ------------------------------------------------------------------ bounds
\* raffle_size ranges over -NegRaffleSize .. MaxRaffleSize
MaxRaffleSize == 2
NegRaffleSize == 1
\* an order of the raffle data set holds 1 .. MaxTickets admission positions
MaxTickets == 2
\* an order of the eligibility data set holds 0 .. MaxPositions positions
MaxPositions == 2
\* the progress of a task is followed over lists of 0 .. MaxListed orders
MaxListed == 101
\* at most MaxChanges override changes are followed
MaxChanges == 2
\* the clique views are followed over MaxRequests requests
MaxRequests == 3

\* ------------------------------------------------------------ the data set
Orders == {"A", "B", "C"}
\* event.orders in the order the queryset yields them
OrderSeq == <<"A", "B", "C">>
CliqueIds == {"c1", "c2"}
Subevents == {1, 2}
Runs == {"r1", "r2"}

STATUS_PENDING == "n"
STATUS_PAID == "p"
STATUS_CANCELED == "c"

MODE_ALWAYS == "always"
MODE_NEVER == "never"
MODE_NORMAL == "chance"
\* order.raffle_override raises OrderRaffleOverride.DoesNotExist: rom = None
NoOverride == "None"
Modes == {MODE_ALWAYS, MODE_NEVER, MODE_NORMAL}
\* getattr(order, 'orderclique', None) is None
NoClique == "None"

\* progress is reported every ProgressEvery-th order
ProgressEvery == 50

VARIABLES
    status,            \* Order.status
    require_approval,  \* Order.require_approval
    positions,         \* the OrderPosition rows of each order, canceled ones included
    orderclique,       \* OrderClique: the clique_id of the order's membership, or NoClique
    raffle_override,   \* OrderRaffleOverride.mode of the order, or NoOverride
    log,               \* order.log_action entries written by the tasks
    calls,             \* the approve_order / deny_order calls made, in order
    run,               \* per task run: its local variables and its place in the code
    exec,              \* the loop of a task over a list given by its length only
    overrides,         \* the OrderRaffleOverride table: rows of an order and a mode
    memberships,       \* the OrderClique table: rows of an order, a clique and is_admin
    cliques,           \* the Clique table: per primary key the row, if it was ever created
    cart,              \* the cart session of the checkout in progress
    response           \* the answer to the last request to a view, and how many were served

deskVars == <<overrides, memberships, cliques, cart, response>>
vars ==
    <<status, require_approval, positions, orderclique, raffle_override, log, calls, run, exec,
      deskVars>>
dbVars == <<status, require_approval, positions, orderclique, raffle_override>>

\* ----------------------------------------------------------------- helpers
Range(s) == {s[j] : j \in 1..Len(s)}

Perms(S) == {f \in [1..Cardinality(S) -> S] : \A x \in S : \E j \in 1..Cardinality(S) : f[j] = x}

RECURSIVE SumSeq(_, _)
\* sum(f(o) for o in s)
SumSeq(s, f) == IF s = <<>> THEN 0 ELSE f[Head(s)] + SumSeq(Tail(s), f)

Position(sub, adm, canc) == [subevent |-> sub, admission |-> adm, canceled |-> canc]

\* -------------------------------------------------------------- eligibility
\* OrderPosition.objects is pretix's manager of the positions that are not canceled
ActivePositions(ps) == SelectSeq(ps, LAMBDA p : ~p.canceled)

\* Count('id') of the filtered positions of one order; 0 stands for the NULL the
\* subquery yields when no row matches
pcnt_othersub(ps, subevent_id) ==
    Len(SelectSeq(ActivePositions(ps), LAMBDA p : p.admission /\ p.subevent # subevent_id))

\* faulty variant: counts through a manager that also yields canceled positions
pcnt_subevent_all_positions(ps, subevent_id) ==
    Len(SelectSeq(ps, LAMBDA p : p.admission /\ p.subevent = subevent_id))

pcnt_subevent(ps, subevent_id) ==
    Len(SelectSeq(ActivePositions(ps), LAMBDA p : p.admission /\ p.subevent = subevent_id))

\* faulty variant: require_approval is not looked at
RaffleFilter_ignores_approval(st, ra, ps, subevent_id) ==
    /\ pcnt_othersub(ps, subevent_id) = 0
    /\ pcnt_subevent(ps, subevent_id) >= 1
    /\ st = STATUS_PENDING

\* the filter of run_raffle's eligible_orders on one order
RaffleFilter(st, ra, ps, subevent_id) ==
    /\ pcnt_othersub(ps, subevent_id) = 0
    /\ pcnt_subevent(ps, subevent_id) >= 1
    /\ ra = TRUE
    /\ st = STATUS_PENDING

\* faulty variant: the status of the order is not looked at
RejectionFilter_any_status(st, ra, ps, subevent_id) ==
    /\ pcnt_subevent(ps, subevent_id) >= 1
    /\ ra = TRUE

\* the filter of run_rejection's orders on one order
RejectionFilter(st, ra, ps, subevent_id) ==
    /\ pcnt_subevent(ps, subevent_id) >= 1
    /\ ra = TRUE
    /\ st = STATUS_PENDING

\* eligible_orders of run_raffle, in queryset order
EligibleOrders(st, ra, pos, subevent_id) ==
    SelectSeq(OrderSeq, LAMBDA o : RaffleFilter(st[o], ra[o], pos[o], subevent_id))

\* faulty variant: the rejection spares the orders that are always chosen
RejectionOrders_spares_always(st, ra, pos, cq, ov, subevent_id) ==
    SelectSeq(OrderSeq, LAMBDA o : RejectionFilter(st[o], ra[o], pos[o], subevent_id)
                                      /\ ov[o] # MODE_ALWAYS)

\* orders of run_rejection, in queryset order; the queryset is event.orders, whose
\* rows reach their orderclique and raffle_override
RejectionOrders(st, ra, pos, cq, ov, subevent_id) ==
    SelectSeq(OrderSeq, LAMBDA o : RejectionFilter(st[o], ra[o], pos[o], subevent_id))


\* ------------------------------------------------- grouping and overrides
\* the key of the unit an order belongs to
UnitKey(cq, o) == IF cq[o] # NoClique THEN <<"clique", cq[o]>> ELSE <<"order", o>>

\* faulty variant: raffle_tickets[k] = [o]
AppendTo_overwrites(tickets, k, o) ==
    [x \in DOMAIN tickets \cup {k} |-> IF x = k THEN <<o>> ELSE tickets[x]]

\* raffle_tickets[k].append(o) on a defaultdict(list)
AppendTo(tickets, k, o) ==
    IF k \in DOMAIN tickets
    THEN [tickets EXCEPT ![k] = Append(@, o)]
    ELSE [x \in DOMAIN tickets \cup {k} |-> IF x = k THEN <<o>> ELSE tickets[x]]

\* one iteration of "for order in eligible_orders"
GroupOrder(acc, o, cq, ov) ==
    LET rom == ov[o]
        k == UnitKey(cq, o)
    IN  IF rom = MODE_NEVER
        THEN [acc EXCEPT !.clique_ids_remove =
                  IF cq[o] # NoClique THEN @ \cup {cq[o]} ELSE @]
        ELSE [acc EXCEPT !.raffle_tickets = AppendTo(@, k, o),
                         !.raffle_keys_prefer =
                             IF rom = MODE_ALWAYS THEN @ \cup {k} ELSE @]

RECURSIVE GroupOrders(_, _, _, _)
GroupOrders(acc, seq, cq, ov) ==
    IF seq = <<>> THEN acc
    ELSE GroupOrders(GroupOrder(acc, Head(seq), cq, ov), Tail(seq), cq, ov)

\* faulty variant: the ban of a clique is forgotten
RemoveClique_keeps(acc, c) == acc

\* one iteration of "for k in clique_ids_remove": del raises KeyError before
\* raffle_keys_prefer.remove runs, and remove raises KeyError for an absent key
RemoveClique(acc, c) ==
    LET k == <<"clique", c>>
    IN  IF k \in DOMAIN acc.raffle_tickets
        THEN [acc EXCEPT !.raffle_tickets = [x \in DOMAIN @ \ {k} |-> @[x]],
                         !.raffle_keys_prefer = @ \ {k}]
        ELSE acc

RECURSIVE RemoveCliques(_, _)
RemoveCliques(acc, ids) ==
    IF ids = {} THEN acc
    ELSE LET c == CHOOSE x \in ids : TRUE
         IN  RemoveCliques(RemoveClique(acc, c), ids \ {c})

EmptyGrouping ==
    [clique_ids_remove |-> {}, raffle_keys_prefer |-> {}, raffle_tickets |-> [x \in {} |-> <<>>]]

\* lines 41-71 of run_raffle: the unit map and the preferred keys
Grouping(eligible, cq, ov) ==
    LET g == GroupOrders(EmptyGrouping, eligible, cq, ov)
    IN  RemoveCliques(g, g.clique_ids_remove)

\* ------------------------------------------------------------- the tables
Events == {"e1", "e2"}
\* the event of the orders and of the cliques they create
ThisEvent == "e1"
\* a clique of the other event
ForeignCliques == {"x1"}
CliqueKeys == CliqueIds \cup ForeignCliques

\* the rows behind order.raffle_override and order.orderclique
OverrideRows(ov) == {[order |-> o, mode |-> ov[o]] : o \in {p \in Orders : ov[p] # NoOverride}}
MembershipRows(cq) ==
    {[order |-> o, clique |-> cq[o], is_admin |-> FALSE] : o \in {p \in Orders : cq[p] # NoClique}}

\* order.raffle_override.mode and order.orderclique.clique_id: the reverse accessor
\* of the one-to-one field yields the row of the order, if there is one
OverrideOf(rows, o) ==
    IF \E w \in rows : w.order = o THEN (CHOOSE w \in rows : w.order = o).mode ELSE NoOverride
CliqueOf(rows, o) ==
    IF \E w \in rows : w.order = o THEN (CHOOSE w \in rows : w.order = o).clique ELSE NoClique

NoCliqueRow == [state |-> "unused", event |-> ThisEvent, name |-> "", password |-> ""]
CliqueRow(event, name, password) ==
    [state |-> "live", event |-> event, name |-> name, password |-> password]

\* no checkout is in progress: the order C is placed like A and B
NoCart ==
    [placed |-> TRUE, clique_mode |-> "unset", clique_join |-> NoClique,
     clique_create |-> NoClique]
\* the cart of order C before anything was chosen on the clique step
OpenCart == [NoCart EXCEPT !.placed = FALSE]
NoResponse == [answer |-> "none", served |-> 0]
\* the answer to one more request
Answer(a) == [answer |-> a, served |-> response.served + 1]

\* the tables as the raffle data sets have them: each clique id is a clique of the
\* event, named by its id and without password
DeskInit ==
    /\ overrides = OverrideRows(raffle_override)
    /\ memberships = MembershipRows(orderclique)
    /\ cliques = [c \in CliqueKeys |->
                     IF c \in CliqueIds THEN CliqueRow(ThisEvent, c, "")
                     ELSE CliqueRow("e2", "n1", "")]
    /\ cart = NoCart
    /\ response = NoResponse

\* ------------------------------------------------------------- selection
\* faulty variant: while raffle_order
LoopCondition_ignores_quota(raffle_order, approvals_left) == raffle_order # <<>>

\* faulty variant: approvals_left >= 0
LoopCondition_admits_at_zero(raffle_order, approvals_left) == raffle_order # <<>> /\ approvals_left >= 0

\* while raffle_order and approvals_left > 0
LoopCondition(raffle_order, approvals_left) == raffle_order # <<>> /\ approvals_left > 0

\* faulty variant: only the first order of the unit is admitted
Admit_first_only(admitted, orders) == admitted \o <<Head(orders)>>

\* orders_to_approve += orders
Admit(admitted, orders) == admitted \o orders

\* n_tickets = sum(o.pcnt_subevent for o in orders)
NTickets(orders, pcnt) == SumSeq(orders, pcnt)

\* ------------------------------------------------------------- progress
\* faulty variant: the share of the orders still to come
Percent_remaining(i, n) == ((n - i) * 10000 + n \div 2) \div n

\* round(i / n * 100, 2), in hundredths of a percent
Percent(i, n) == (i * 10000 + n \div 2) \div n

ProgressAfter(progress, i, n) ==
    IF i % ProgressEvery = 0 THEN Append(progress, Percent(i, n)) ELSE progress

\* ------------------------------------------------------------------ runs
\* a run record holds the task's arguments and local variables; eligible_orders is
\* the evaluated queryset, whose rows carry the pcnt_subevent annotation and the
\* select_related orderclique and raffle_override as read by the query
NoResult == 0 - 1

IdleRun ==
    [pc |-> "idle", task |-> "none", subevent_id |-> 0, raffle_size |-> 0,
     eligible_orders |-> <<>>, pcnt_subevent |-> [o \in Orders |-> 0],
     orderclique |-> [o \in Orders |-> NoClique],
     raffle_override |-> [o \in Orders |-> NoOverride],
     raffle_tickets |-> [x \in {} |-> <<>>], raffle_keys_prefer |-> {},
     raffle_order |-> <<>>, approvals_left |-> 0, orders |-> <<>>, i |-> 0,
     progress |-> <<>>, result |-> NoResult, earlier |-> {}]

OffRun == [IdleRun EXCEPT !.pc = "off"]

RaffleSizes == (0 - NegRaffleSize) .. MaxRaffleSize

\* the other runs that had ended when run r began: what the query of r can see of them
Finished(r) == {q \in Runs \ {r} : run[q].pc \in {"done", "failed"}}

\* faulty variant: the preferred keys are shuffled among the others
RaffleOrder_preferred_last(preferred_list, shuffled) == shuffled \o preferred_list

\* raffle_order = list(raffle_keys_prefer) + shuffled keys, lines 73-76
RaffleOrder(preferred_list, shuffled) == preferred_list \o shuffled

\* run_raffle, lines 14-79: the query, the grouping, the shuffle
StartRaffle(r, subevent_id, raffle_size) ==
    /\ run[r].pc = "idle"
    /\ LET eligible == EligibleOrders(status, require_approval, positions, subevent_id)
           g == Grouping(eligible, orderclique, raffle_override)
           not_preferred == DOMAIN g.raffle_tickets \ g.raffle_keys_prefer
       IN  \E preferred_list \in Perms(g.raffle_keys_prefer) :
           \E shuffled \in Perms(not_preferred) :
               run' = [run EXCEPT ![r] =
                   [IdleRun EXCEPT
                       !.pc = "select", !.task = "raffle",
                       !.subevent_id = subevent_id, !.raffle_size = raffle_size,
                       !.eligible_orders = eligible,
                       !.pcnt_subevent = [o \in Orders |-> pcnt_subevent(positions[o], subevent_id)],
                       !.orderclique = orderclique,
                       !.raffle_override = raffle_override,
                       !.raffle_tickets = g.raffle_tickets,
                       !.raffle_keys_prefer = g.raffle_keys_prefer,
                       !.raffle_order = RaffleOrder(preferred_list, shuffled),
                       !.approvals_left = raffle_size,
                       !.earlier = Finished(r)]]
    /\ UNCHANGED <<dbVars, log, calls, exec, deskVars>>

\* the parameters of run_raffle after self, tasks.py line 14
TaskParameters == {"event", "subevent_id", "user_id", "raffle_size"}

\* the arguments RaffleView.form_valid hands to the task: the event positionally, the
\* others by keyword
FormKeywords == {"subevent_id", "user_id", "raffle_size", "max_addons"}

MaxAddons == {0, 999999}

\* RaffleView.form_valid: self.do(event.pk, subevent_id=..., user_id=...,
\* raffle_size=number, max_addons=max_addons); a keyword that is no parameter of the
\* task is a TypeError and no line of run_raffle runs
FormValid(r, subevent_id, raffle_size, max_addons) ==
    IF FormKeywords \subseteq TaskParameters
    THEN StartRaffle(r, subevent_id, raffle_size)
    ELSE /\ run[r].pc = "idle"
         /\ run' = [run EXCEPT ![r] = [IdleRun EXCEPT !.pc = "failed", !.task = "form"]]
         /\ UNCHANGED <<dbVars, log, calls, exec, deskVars>>

\* faulty variant: raffle_order[0], the key stays in the list
PopKey_peeks(raffle_order) == raffle_order

\* raffle_order.pop(0) leaves the rest of the list, line 82
PopKey(raffle_order) == Tail(raffle_order)

\* one iteration of the while loop, lines 81-86
SelectUnit(r) ==
    /\ run[r].pc = "select"
    /\ LoopCondition(run[r].raffle_order, run[r].approvals_left)
    /\ LET orders == run[r].raffle_tickets[Head(run[r].raffle_order)]
           n_tickets == NTickets(orders, run[r].pcnt_subevent)
       IN  run' = [run EXCEPT ![r].raffle_order = PopKey(@),
                              ![r].orders = Admit(@, orders),
                              ![r].approvals_left = @ - n_tickets]
    /\ UNCHANGED <<dbVars, log, calls, exec, deskVars>>

\* the while loop ends; update_state(meta={'value': 0}), lines 88-91
SelectDone(r) ==
    /\ run[r].pc = "select"
    /\ ~LoopCondition(run[r].raffle_order, run[r].approvals_left)
    /\ run' = [run EXCEPT ![r].pc = "approve", ![r].i = 0, ![r].progress = Append(@, 0)]
    /\ UNCHANGED <<dbVars, log, calls, exec, deskVars>>

\* faulty variant: the failure is swallowed without a log entry
LogAction_nothing(entries, o, action) == entries

\* order.log_action(action, ...)
LogAction(entries, o, action) == Append(entries, [order |-> o, action |-> action])

Call(r, fn, o, ok) == [run |-> r, fn |-> fn, order |-> o, ok |-> ok]

\* approve_order succeeds on an order pending approval: it is no longer one
ApproveOk(r) ==
    /\ run[r].pc = "approve" /\ run[r].task = "raffle"
    /\ run[r].i < Len(run[r].orders)
    /\ LET o == run[r].orders[run[r].i + 1]
       IN  /\ require_approval[o] /\ status[o] = STATUS_PENDING
           /\ require_approval' = [require_approval EXCEPT ![o] = FALSE]
           /\ calls' = Append(calls, Call(r, "approve_order", o, TRUE))
    /\ run' = [run EXCEPT ![r].i = @ + 1,
                          ![r].progress = ProgressAfter(@, run[r].i, Len(run[r].orders))]
    /\ UNCHANGED <<status, positions, orderclique, raffle_override, log, exec, deskVars>>

\* approve_order raises OrderError, lines 99-100
ApproveFail(r) ==
    /\ run[r].pc = "approve" /\ run[r].task = "raffle"
    /\ run[r].i < Len(run[r].orders)
    /\ LET o == run[r].orders[run[r].i + 1]
       IN  /\ log' = LogAction(log, o, "pretix_cliques.raffle.approve_failed")
           /\ calls' = Append(calls, Call(r, "approve_order", o, FALSE))
    /\ run' = [run EXCEPT ![r].i = @ + 1,
                          ![r].progress = ProgressAfter(@, run[r].i, Len(run[r].orders))]
    /\ UNCHANGED <<dbVars, exec, deskVars>>

\* faulty variant: the count of the approvals that succeeded
ReturnValue_succeeded(orders, cs) == Len(SelectSeq(cs, LAMBDA c : c.ok))

\* return len(orders_to_approve) / return len(orders)
ReturnValue(orders, cs) == Len(orders)

RaffleReturn(r) ==
    /\ run[r].pc = "approve" /\ run[r].task = "raffle"
    /\ run[r].i = Len(run[r].orders)
    /\ run' = [run EXCEPT ![r].pc = "done", ![r].result = ReturnValue(run[r].orders, calls)]
    /\ UNCHANGED <<dbVars, log, calls, exec, deskVars>>

\* run_rejection, lines 111-129: the query and the first progress update
StartRejection(r, subevent_id) ==
    /\ run[r].pc = "idle"
    /\ run' = [run EXCEPT ![r] =
           [IdleRun EXCEPT
               !.pc = "deny", !.task = "rejection", !.subevent_id = subevent_id,
               !.orders = RejectionOrders(status, require_approval, positions,
                                          orderclique, raffle_override, subevent_id),
               !.pcnt_subevent = [o \in Orders |-> pcnt_subevent(positions[o], subevent_id)],
               !.progress = <<0>>,
               !.earlier = Finished(r)]]
    /\ UNCHANGED <<dbVars, log, calls, exec, deskVars>>

\* deny_order succeeds on an order pending approval: it is canceled
DenyOk(r) ==
    /\ run[r].pc = "deny"
    /\ run[r].i < Len(run[r].orders)
    /\ LET o == run[r].orders[run[r].i + 1]
       IN  /\ require_approval[o] /\ status[o] = STATUS_PENDING
           /\ status' = [status EXCEPT ![o] = STATUS_CANCELED]
           /\ calls' = Append(calls, Call(r, "deny_order", o, TRUE))
    /\ run' = [run EXCEPT ![r].i = @ + 1,
                          ![r].progress = ProgressAfter(@, run[r].i, Len(run[r].orders))]
    /\ UNCHANGED <<require_approval, positions, orderclique, raffle_override, log, exec, deskVars>>

\* faulty variant: the failure is caught as in run_raffle and the loop goes on
DenyFail_caught(r) ==
    /\ run[r].pc = "deny"
    /\ run[r].i < Len(run[r].orders)
    /\ LET o == run[r].orders[run[r].i + 1]
       IN  calls' = Append(calls, Call(r, "deny_order", o, FALSE))
    /\ run' = [run EXCEPT ![r].i = @ + 1,
                          ![r].progress = ProgressAfter(@, run[r].i, Len(run[r].orders))]
    /\ UNCHANGED <<dbVars, log, exec, deskVars>>

\* deny_order raises: nothing catches it, the task fails
DenyFail(r) ==
    /\ run[r].pc = "deny"
    /\ run[r].i < Len(run[r].orders)
    /\ LET o == run[r].orders[run[r].i + 1]
       IN  calls' = Append(calls, Call(r, "deny_order", o, FALSE))
    /\ run' = [run EXCEPT ![r].pc = "failed"]
    /\ UNCHANGED <<dbVars, log, exec, deskVars>>

RejectionReturn(r) ==
    /\ run[r].pc = "deny"
    /\ run[r].i = Len(run[r].orders)
    /\ run' = [run EXCEPT ![r].pc = "done", ![r].result = ReturnValue(run[r].orders, calls)]
    /\ UNCHANGED <<dbVars, log, calls, exec, deskVars>>

\* ------------------------------------------------------ override changes
\* request.POST.get('mode'): a mode, any other string, or nothing
SubmittedModes == Modes \cup {"bogus", ""}

\* faulty variant: the submitted string is stored as it is
NormaliseMode_keeps(mode) == mode

\* if mode not in dict(MODE_CHOICES): mode = MODE_NORMAL, views.py lines 207-208
NormaliseMode(mode) == IF mode \notin Modes THEN MODE_NORMAL ELSE mode

\* OrderRaffleOverride.objects.update_or_create(order=o, defaults={'mode': mode}): the
\* row of the order is updated, or created when there is none; with several rows the
\* lookup raises and nothing is written
UpdateOrCreate(rows, o, mode) ==
    LET found == {w \in rows : w.order = o}
    IN  IF found = {} THEN rows \cup {[order |-> o, mode |-> mode]}
        ELSE IF Cardinality(found) = 1 THEN (rows \ found) \cup {[order |-> o, mode |-> mode]}
        ELSE rows

ChangesLogged == Len(SelectSeq(log, LAMBDA e : e.action = "pretix_cliques.chance.changed"))

\* RaffleOverrideChange.post, views.py lines 205-219
RaffleOverrideChange(o, mode) ==
    /\ ChangesLogged < MaxChanges
    /\ overrides' = UpdateOrCreate(overrides, o, NormaliseMode(mode))
    /\ raffle_override' = [p \in Orders |-> OverrideOf(overrides', p)]
    /\ log' = LogAction(log, o, "pretix_cliques.chance.changed")
    /\ response' = Answer("redirect")
    /\ UNCHANGED <<status, require_approval, positions, orderclique, calls, run, exec,
                   memberships, cliques, cart>>

\* ------------------------------------------------------- clique forms
Names == {"n1", "n2"}
SubmittedNames == Names \cup {""}
\* passwords shorter than min_length=3 fail the field's validation
ShortPasswords == {"x"}
NewPasswords == {"", "p1"}
SubmittedPasswords == {"", "x", "p1"}
\* cleaned_data.get('password') of a field that failed validation
NoValue == "None"

\* forms.CharField(min_length=3, required=False): the cleaned password
CleanPassword(password) == IF password \in ShortPasswords THEN NoValue ELSE password

\* the cliques of the event with the name
NamedCliques(cl, name) ==
    {c \in CliqueKeys : cl[c].state = "live" /\ cl[c].event = ThisEvent /\ cl[c].name = name}

\* faulty variant: the password is not compared
JoinClean_any_password(cl, name, password) ==
    IF name = "" THEN [error |-> "required", clique |-> NoClique]
    ELSE IF NamedCliques(cl, name) = {}
    THEN [error |-> "clique_not_found", clique |-> NoClique]
    ELSE [error |-> IF CleanPassword(password) = NoValue THEN "min_length" ELSE "valid",
          clique |-> CHOOSE c \in NamedCliques(cl, name) : TRUE]

\* CliqueJoinForm.is_valid(): the field validation and clean(), checkoutflow.py 88-110
JoinClean(cl, name, password) ==
    IF name = "" THEN [error |-> "required", clique |-> NoClique]
    ELSE IF NamedCliques(cl, name) = {}
    THEN [error |-> "clique_not_found", clique |-> NoClique]
    ELSE LET c == CHOOSE x \in NamedCliques(cl, name) : TRUE
         IN  IF cl[c].password # CleanPassword(password)
             THEN [error |-> "pw_mismatch", clique |-> NoClique]
             ELSE [error |-> "valid", clique |-> c]

\* CliqueCreateForm.is_valid(): clean_name and the password field, checkoutflow.py 30-56
CreateClean(cl, name, password, current) ==
    IF name = "" THEN "required"
    ELSE IF NamedCliques(cl, name) \ {current} # {} THEN "duplicate_name"
    ELSE IF CleanPassword(password) = NoValue THEN "min_length"
    ELSE "valid"

\* CliqueChangePasswordForm.is_valid(), views.py 36-43
ChangeClean(password) == IF CleanPassword(password) = NoValue THEN "min_length" ELSE "valid"

\* the primary key of the next Clique row; no key is left after the last of CliqueIds
UnusedCliques(cl) == {c \in CliqueIds : cl[c].state = "unused"}
FreshClique(cl) == IF "c1" \in UnusedCliques(cl) THEN "c1" ELSE "c2"

HasMembership(rows, o) == \E w \in rows : w.order = o
MembershipOf(rows, o) == CHOOSE w \in rows : w.order = o

\* faulty variant: order is a ForeignKey, any number of rows per order
CreateMembership_no_unique(rows, o, c, is_admin) ==
    [raised |-> FALSE, rows |-> rows \cup {[order |-> o, clique |-> c, is_admin |-> is_admin]}]

\* OrderClique.objects.create(...): order is a OneToOneField (models.py line 21), a
\* second row for the order is an IntegrityError
CreateMembership(rows, o, c, is_admin) ==
    IF HasMembership(rows, o)
    THEN [raised |-> TRUE, rows |-> rows]
    ELSE [raised |-> FALSE,
          rows |-> rows \cup {[order |-> o, clique |-> c, is_admin |-> is_admin]}]

\* the view of the tasks on the membership table
Accessor(rows) == [p \in Orders |-> CliqueOf(rows, p)]

Placed(o) == o # "C" \/ cart.placed

\* one of at most MaxRequests requests to the clique views; they leave the orders
\* and the tasks alone
OneRequest ==
    /\ response.served < MaxRequests
    /\ UNCHANGED <<status, require_approval, positions, raffle_override, calls, run, exec,
                   overrides>>

\* ------------------------------------------------------- clique views
\* the error message and the page again: nothing is written
Rejected ==
    /\ response' = Answer("error")
    /\ UNCHANGED <<memberships, orderclique, cliques, cart, log>>

\* OrderCliqueChange.post with clique_mode=leave, views.py lines 75-89
OrderLeave(o) ==
    /\ Placed(o)
    /\ IF HasMembership(memberships, o)
       THEN /\ memberships' = memberships \ {MembershipOf(memberships, o)}
            /\ orderclique' = Accessor(memberships')
            /\ log' = LogAction(log, o, "pretix_cliques.order.left")
            /\ response' = Answer("redirect")
            /\ UNCHANGED <<cliques, cart>>
       ELSE Rejected
    /\ OneRequest

\* faulty variant: the password is saved whoever asks
OrderChange_any_member(o, password) ==
    /\ Placed(o)
    /\ IF ChangeClean(password) = "valid" /\ HasMembership(memberships, o)
       THEN LET c == MembershipOf(memberships, o)
            IN  /\ cliques' = [cliques EXCEPT ![c.clique].password = CleanPassword(password)]
                /\ log' = LogAction(log, o, "pretix_cliques.order.changed")
                /\ response' = Answer("redirect")
                /\ UNCHANGED <<memberships, orderclique, cart>>
       ELSE Rejected
    /\ OneRequest

\* OrderCliqueChange.post with clique_mode=change, views.py lines 91-104
OrderChange(o, password) ==
    /\ Placed(o)
    /\ IF ChangeClean(password) = "valid" /\ HasMembership(memberships, o)
       THEN LET c == MembershipOf(memberships, o)
            IN  /\ cliques' = IF c.is_admin
                              THEN [cliques EXCEPT
                                       ![c.clique].password = CleanPassword(password)]
                              ELSE cliques
                /\ log' = LogAction(log, o, "pretix_cliques.order.changed")
                /\ response' = Answer("redirect")
                /\ UNCHANGED <<memberships, orderclique, cart>>
       ELSE Rejected
    /\ OneRequest

\* OrderCliqueChange.post with clique_mode=join, views.py lines 106-117; the
\* IntegrityError leaves the transaction of the view rolled back
OrderJoin(o, name, password) ==
    /\ Placed(o)
    /\ LET form == JoinClean(cliques, name, password)
           made == CreateMembership(memberships, o, form.clique, FALSE)
       IN  IF form.error # "valid" THEN Rejected
           ELSE IF made.raised
           THEN /\ response' = Answer("IntegrityError")
                /\ UNCHANGED <<memberships, orderclique, cliques, cart, log>>
           ELSE /\ memberships' = made.rows
                /\ orderclique' = Accessor(memberships')
                /\ log' = LogAction(log, o, "pretix_cliques.order.joined")
                /\ response' = Answer("redirect")
                /\ UNCHANGED <<cliques, cart>>
    /\ OneRequest

\* OrderCliqueChange.post with clique_mode=create, views.py lines 119-133
OrderCreate(o, name, password) ==
    /\ Placed(o)
    /\ UnusedCliques(cliques) # {}
    /\ LET c == FreshClique(cliques)
           made == CreateMembership(memberships, o, c, TRUE)
       IN  IF CreateClean(cliques, name, password, NoClique) # "valid" THEN Rejected
           ELSE IF made.raised
           THEN /\ response' = Answer("IntegrityError")
                /\ UNCHANGED <<memberships, orderclique, cliques, cart, log>>
           ELSE /\ cliques' = [cliques EXCEPT
                                  ![c] = CliqueRow(ThisEvent, name, CleanPassword(password))]
                /\ memberships' = made.rows
                /\ orderclique' = Accessor(memberships')
                /\ log' = LogAction(log, o, "pretix_cliques.order.created")
                /\ response' = Answer("redirect")
                /\ UNCHANGED cart
    /\ OneRequest

\* OrderCliqueChange.post with clique_mode=none (ok) or with any other value,
\* views.py lines 135-140
OrderOther(o, ok) ==
    /\ Placed(o)
    /\ response' = Answer(IF ok THEN "redirect" ELSE "error")
    /\ UNCHANGED <<memberships, orderclique, cliques, cart, log>>
    /\ OneRequest

\* CliqueStep.post with clique_mode=join, checkoutflow.py lines 121-129: the mode is
\* put into the cart session ahead of the validation
StepJoin(name, password) ==
    /\ ~cart.placed
    /\ LET form == JoinClean(cliques, name, password)
       IN  /\ cart' = IF form.error = "valid"
                      THEN [cart EXCEPT !.clique_mode = "join", !.clique_join = form.clique]
                      ELSE [cart EXCEPT !.clique_mode = "join"]
           /\ response' = Answer(IF form.error = "valid" THEN "redirect" ELSE "error")
    /\ UNCHANGED <<memberships, orderclique, cliques, log>>
    /\ OneRequest

\* the clique the create form of the checkout edits: the one the cart session
\* made before, if it is still there (checkoutflow.py lines 136-140 and 154-161)
CurrentClique ==
    IF /\ cart.clique_create # NoClique
       /\ cliques[cart.clique_create].state = "live"
       /\ cliques[cart.clique_create].event = ThisEvent
    THEN cart.clique_create ELSE NoClique

\* CliqueStep.post with clique_mode=create, checkoutflow.py lines 131-146
StepCreate(name, password) ==
    /\ ~cart.placed
    /\ CurrentClique # NoClique \/ UnusedCliques(cliques) # {}
    /\ LET c == IF CurrentClique # NoClique THEN CurrentClique ELSE FreshClique(cliques)
       IN  IF CreateClean(cliques, name, password, CurrentClique) = "valid"
           THEN /\ cliques' = [cliques EXCEPT
                                  ![c] = CliqueRow(ThisEvent, name, CleanPassword(password))]
                /\ cart' = [cart EXCEPT !.clique_mode = "create", !.clique_create = c]
                /\ response' = Answer("redirect")
           ELSE /\ cart' = [cart EXCEPT !.clique_mode = "create"]
                /\ response' = Answer("error")
                /\ UNCHANGED cliques
    /\ UNCHANGED <<memberships, orderclique, log>>
    /\ OneRequest

\* CliqueStep.post with clique_mode=none or with any other value, lines 147-151
StepOther(mode) ==
    /\ ~cart.placed
    /\ cart' = [cart EXCEPT !.clique_mode = mode]
    /\ response' = Answer(IF mode = "none" THEN "redirect" ELSE "error")
    /\ UNCHANGED <<memberships, orderclique, cliques, log>>
    /\ OneRequest

\* the subevents of the positions that are not canceled of the orders in clique c
CliqueSubevents(c) ==
    UNION {{positions[w.order][j].subevent :
               j \in {k \in 1..Len(positions[w.order]) : ~positions[w.order][k].canceled}} :
           w \in {x \in memberships : x.clique = c}}

CartSubevents == {positions["C"][j].subevent : j \in 1..Len(positions["C"])}

\* CliqueStep.is_completed, checkoutflow.py lines 205-223
is_completed ==
    IF /\ cart.clique_mode = "join" /\ cart.clique_join # NoClique
       /\ cliques[cart.clique_join].state = "live"
       /\ CliqueSubevents(cart.clique_join) # {}
       /\ ~(CartSubevents \subseteq CliqueSubevents(cart.clique_join))
    THEN FALSE
    ELSE cart.clique_mode # "unset"

\* the clique of the event with the key in the order's meta data, NoClique for
\* Clique.DoesNotExist
EventClique(c) ==
    IF c # NoClique /\ cliques[c].state = "live" /\ cliques[c].event = ThisEvent
    THEN c ELSE NoClique

\* order_meta_signal and placed_order, signals.py lines 26-51: the order C is placed
\* from its cart
placed_order ==
    /\ ~cart.placed
    /\ is_completed
    /\ LET c == IF cart.clique_mode = "create" THEN EventClique(cart.clique_create)
                ELSE IF cart.clique_mode = "join" THEN EventClique(cart.clique_join)
                ELSE NoClique
           made == CreateMembership(memberships, "C", c, cart.clique_mode = "create")
       IN  /\ memberships' = IF c = NoClique THEN memberships ELSE made.rows
           /\ orderclique' = Accessor(memberships')
    /\ cart' = NoCart
    /\ response' = Answer("redirect")
    /\ UNCHANGED <<cliques, log>>
    /\ OneRequest

\* ControlCliqueChange.post, views.py lines 243-249: the form saves the order's
\* row, or a new one, with the chosen clique of the event
ControlCliqueChange(o, c, is_admin) ==
    /\ Placed(o)
    /\ IF c # NoClique /\ cliques[c].state = "live" /\ cliques[c].event = ThisEvent
       THEN /\ memberships' = {w \in memberships : w.order # o}
                                 \cup {[order |-> o, clique |-> c, is_admin |-> is_admin]}
            /\ orderclique' = Accessor(memberships')
            /\ response' = Answer("redirect")
       ELSE /\ response' = Answer("error")
            /\ UNCHANGED <<memberships, orderclique>>
    /\ UNCHANGED <<cliques, cart, log>>
    /\ OneRequest

\* CliqueDetail with CliqueForm, views.py lines 262-296: the control panel saves a
\* name that no other clique of the event has, and any password
CliqueDetail(c, name, password) ==
    /\ cliques[c].state = "live" /\ cliques[c].event = ThisEvent
    /\ IF NamedCliques(cliques, name) \ {c} = {}
       THEN /\ cliques' = [cliques EXCEPT ![c].name = name, ![c].password = password]
            /\ log' = LogAction(log, c, "pretix_cliques.clique.changed")
            /\ response' = Answer("redirect")
       ELSE /\ response' = Answer("error")
            /\ UNCHANGED <<cliques, log>>
    /\ UNCHANGED <<memberships, orderclique, cart>>
    /\ OneRequest

RECURSIVE LogDeleted(_, _, _)
\* order.log_action("pretix_cliques.order.deleted") for the orders of the rows
LogDeleted(entries, members, k) ==
    IF k > Len(OrderSeq) THEN entries
    ELSE LogDeleted(IF OrderSeq[k] \in members
                    THEN LogAction(entries, OrderSeq[k], "pretix_cliques.order.deleted")
                    ELSE entries,
                    members, k + 1)

\* CliqueDelete.delete, views.py lines 318-335
CliqueDelete(c) ==
    /\ cliques[c].state = "live" /\ cliques[c].event = ThisEvent
    /\ log' = LogDeleted(LogAction(log, c, "pretix_cliques.clique.deleted"),
                         {w.order : w \in {x \in memberships : x.clique = c}}, 1)
    /\ memberships' = {w \in memberships : w.clique # c}
    /\ orderclique' = Accessor(memberships')
    /\ cliques' = [cliques EXCEPT ![c] = [NoCliqueRow EXCEPT !.state = "deleted"]]
    /\ response' = Answer("redirect")
    /\ UNCHANGED cart
    /\ OneRequest

\* ------------------------------------------------- the loops by counters
\* the for loops of run_raffle (lines 92-105) and run_rejection (lines 130-140)
\* with the list reduced to its length n: i orders are done, progress holds the
\* values given to update_state, result the value returned
IdleExec ==
    [pc |-> "idle", task |-> "none", n |-> 0, i |-> 0, progress |-> <<>>, result |-> NoResult]

OffExec == [IdleExec EXCEPT !.pc = "off"]

\* update_state(meta={'value': 0}) ahead of the loop, lines 88-91 and 126-129
ExecStart(task, n) ==
    /\ exec.pc = "idle"
    /\ exec' = [IdleExec EXCEPT !.pc = "loop", !.task = task, !.n = n, !.progress = <<0>>]
    /\ UNCHANGED <<dbVars, log, calls, run, deskVars>>

\* one order: approve_order returned or raised OrderError, or deny_order returned
ExecStep ==
    /\ exec.pc = "loop"
    /\ exec.i < exec.n
    /\ exec' = [exec EXCEPT !.i = @ + 1, !.progress = ProgressAfter(@, exec.i, exec.n)]
    /\ UNCHANGED <<dbVars, log, calls, run, deskVars>>

\* deny_order raised
ExecRaise ==
    /\ exec.pc = "loop" /\ exec.task = "rejection"
    /\ exec.i < exec.n
    /\ exec' = [exec EXCEPT !.pc = "failed"]
    /\ UNCHANGED <<dbVars, log, calls, run, deskVars>>

\* return len(orders_to_approve) / return len(orders)
ExecReturn ==
    /\ exec.pc = "loop"
    /\ exec.i = exec.n
    /\ exec' = [exec EXCEPT !.pc = "done", !.result = exec.n]
    /\ UNCHANGED <<dbVars, log, calls, run, deskVars>>

\* ---------------------------------------------------------- specification
Tickets(n) == [j \in 1..n |-> Position(1, TRUE, FALSE)]

\* the raffle data set: every order is pending approval with admission positions on
\* subevent 1 (A 1..MaxTickets of them, B and C one each), in any clique or none, with
\* any override or none
Init ==
    /\ status = [o \in Orders |-> STATUS_PENDING]
    /\ require_approval = [o \in Orders |-> TRUE]
    /\ \E a \in 1..MaxTickets :
           positions = [o \in Orders |-> IF o = "A" THEN Tickets(a) ELSE Tickets(1)]
    /\ orderclique \in [Orders -> CliqueIds \cup {NoClique}]
    /\ raffle_override \in [Orders -> Modes \cup {NoOverride}]
    /\ log = <<>>
    /\ calls = <<>>
    /\ run = [r \in Runs |-> IF r = "r1" THEN IdleRun ELSE OffRun]
    /\ exec = OffExec
    /\ DeskInit

Next ==
    \E r \in Runs :
        \/ \E s \in Subevents : \E n \in RaffleSizes : StartRaffle(r, s, n)
        \/ \E s \in Subevents : \E n \in RaffleSizes : \E m \in MaxAddons : FormValid(r, s, n, m)
        \/ SelectUnit(r)
        \/ SelectDone(r)
        \/ ApproveOk(r)
        \/ ApproveFail(r)
        \/ RaffleReturn(r)
        \/ \E s \in Subevents : StartRejection(r, s)
        \/ DenyOk(r)
        \/ DenyFail(r)
        \/ RejectionReturn(r)

Spec == Init /\ [][Next]_vars

\* the next statement of a task that has begun: the worker runs the task's code on,
\* approve_order and deny_order return or raise
RunStep(r) ==
    \/ SelectUnit(r)
    \/ SelectDone(r)
    \/ ApproveOk(r)
    \/ ApproveFail(r)
    \/ RaffleReturn(r)
    \/ DenyOk(r)
    \/ DenyFail(r)
    \/ RejectionReturn(r)

\* the data set of the runs that are followed to their end: every order is pending
\* approval on subevent 1, in any clique or none, A with any override or none
InitLive ==
    /\ status = [o \in Orders |-> STATUS_PENDING]
    /\ require_approval = [o \in Orders |-> TRUE]
    /\ \E a \in 1..MaxTickets :
           positions = [o \in Orders |-> IF o = "A" THEN Tickets(a) ELSE Tickets(1)]
    /\ orderclique \in [Orders -> CliqueIds \cup {NoClique}]
    /\ \E m \in Modes \cup {NoOverride} :
           raffle_override = [o \in Orders |-> IF o = "A" THEN m ELSE NoOverride]
    /\ log = <<>>
    /\ calls = <<>>
    /\ run = [r \in Runs |-> IF r = "r1" THEN IdleRun ELSE OffRun]
    /\ exec = OffExec
    /\ DeskInit

SpecLive == InitLive /\ [][Next]_vars /\ \A r \in Runs : WF_vars(RunStep(r))

\* the eligibility data set: order A holds any 0..MaxPositions positions (either
\* subevent, admission or not, canceled or not) and may be paid or need no approval;
\* B and C hold admission positions on one subevent or on both
PositionKinds == {Position(s, a, c) : s \in Subevents, a \in BOOLEAN, c \in BOOLEAN}

KindRank(p) ==
    4 * (p.subevent - 1) + (IF p.admission THEN 2 ELSE 0) + (IF p.canceled THEN 1 ELSE 0)

\* the position rows of one order, up to the order of the rows
PositionLists ==
    {l \in UNION {[1..n -> PositionKinds] : n \in 0..MaxPositions} :
        \A j \in 1..Len(l) - 1 : KindRank(l[j]) <= KindRank(l[j + 1])}

AdmissionLists ==
    {<<Position(1, TRUE, FALSE)>>, <<Position(2, TRUE, FALSE)>>,
     <<Position(1, TRUE, FALSE), Position(2, TRUE, FALSE)>>}

InitElig ==
    /\ \E st \in {STATUS_PENDING, STATUS_PAID} :
           status = [o \in Orders |-> IF o = "A" THEN st ELSE STATUS_PENDING]
    /\ \E ra \in BOOLEAN :
           require_approval = [o \in Orders |-> IF o = "A" THEN ra ELSE TRUE]
    /\ \E a \in PositionLists : \E b, c \in AdmissionLists :
           positions = [o \in Orders |-> IF o = "A" THEN a ELSE IF o = "B" THEN b ELSE c]
    /\ orderclique = [o \in Orders |-> NoClique]
    /\ \E m \in {NoOverride, MODE_ALWAYS} :
           raffle_override = [o \in Orders |-> IF o = "B" THEN m ELSE NoOverride]
    /\ log = <<>>
    /\ calls = <<>>
    /\ run = [r \in Runs |-> IF r = "r1" THEN IdleRun ELSE OffRun]
    /\ exec = OffExec
    /\ DeskInit

SpecElig == InitElig /\ [][Next]_vars

\* two runs that may overlap or follow each other: A holds 1..MaxTickets tickets, B
\* and C one each, alone or together in clique c1
InitTwo ==
    /\ status = [o \in Orders |-> STATUS_PENDING]
    /\ require_approval = [o \in Orders |-> TRUE]
    /\ \E a \in 1..MaxTickets :
           positions = [o \in Orders |-> IF o = "A" THEN Tickets(a) ELSE Tickets(1)]
    /\ \E c \in {NoClique, "c1"} :
           orderclique = [o \in Orders |-> IF o = "A" THEN NoClique ELSE c]
    /\ raffle_override = [o \in Orders |-> NoOverride]
    /\ log = <<>>
    /\ calls = <<>>
    /\ run = [r \in Runs |-> IdleRun]
    /\ exec = OffExec
    /\ DeskInit

SpecTwo == InitTwo /\ [][Next]_vars

\* two runs over orders of two subevents: A holds an admission position on subevent
\* 1, on subevent 2 or on both, B holds one on subevent 1 and C one on subevent 2
InitSub ==
    /\ status = [o \in Orders |-> STATUS_PENDING]
    /\ require_approval = [o \in Orders |-> TRUE]
    /\ \E a \in AdmissionLists :
           positions = [o \in Orders |->
                           IF o = "A" THEN a
                           ELSE IF o = "B" THEN <<Position(1, TRUE, FALSE)>>
                           ELSE <<Position(2, TRUE, FALSE)>>]
    /\ orderclique = [o \in Orders |-> NoClique]
    /\ raffle_override = [o \in Orders |-> NoOverride]
    /\ log = <<>>
    /\ calls = <<>>
    /\ run = [r \in Runs |-> IdleRun]
    /\ exec = OffExec
    /\ DeskInit

SpecSub == InitSub /\ [][Next]_vars

\* override changes around one run: A and B share clique c1, C has none, no order
\* has an override yet
InitOverride ==
    /\ status = [o \in Orders |-> STATUS_PENDING]
    /\ require_approval = [o \in Orders |-> TRUE]
    /\ positions = [o \in Orders |-> Tickets(1)]
    /\ orderclique = [o \in Orders |-> IF o = "C" THEN NoClique ELSE "c1"]
    /\ raffle_override = [o \in Orders |-> NoOverride]
    /\ log = <<>>
    /\ calls = <<>>
    /\ run = [r \in Runs |-> IF r = "r1" THEN IdleRun ELSE OffRun]
    /\ exec = OffExec
    /\ DeskInit

NextOverride ==
    \/ Next
    \/ \E o \in Orders : \E mode \in SubmittedModes : RaffleOverrideChange(o, mode)

SpecOverride == InitOverride /\ [][NextOverride]_vars

\* the clique views: A (on subevent 1) and B (on subevent 2) are placed orders, C
\* (on subevent 2) is in the checkout; the event has no clique yet, or the clique
\* c1 of A, or c1 with A and B in it; another event has a clique of the name n1
\* without a password
InitClique ==
    /\ status = [o \in Orders |-> STATUS_PENDING]
    /\ require_approval = [o \in Orders |-> TRUE]
    /\ positions = [o \in Orders |->
                       IF o = "A" THEN <<Position(1, TRUE, FALSE)>>
                       ELSE <<Position(2, TRUE, FALSE)>>]
    /\ raffle_override = [o \in Orders |-> NoOverride]
    /\ log = <<>>
    /\ calls = <<>>
    /\ run = [r \in Runs |-> OffRun]
    /\ exec = OffExec
    /\ overrides = {}
    /\ \E members \in {{}, {"A"}, {"A", "B"}} :
           /\ memberships = {[order |-> o, clique |-> "c1", is_admin |-> o = "A"] :
                                o \in members}
           /\ cliques = [c \in CliqueKeys |->
                            IF c \in ForeignCliques THEN CliqueRow("e2", "n1", "")
                            ELSE IF c = "c1" /\ members # {}
                            THEN CliqueRow(ThisEvent, "n1", "p1")
                            ELSE NoCliqueRow]
    /\ orderclique = Accessor(memberships)
    /\ cart = OpenCart
    /\ response = NoResponse

NextClique ==
    \/ \E o \in Orders : OrderLeave(o)
    \/ \E o \in Orders : \E password \in SubmittedPasswords : OrderChange(o, password)
    \/ \E o \in Orders : \E name \in SubmittedNames : \E password \in SubmittedPasswords :
           OrderJoin(o, name, password)
    \/ \E o \in Orders : \E name \in SubmittedNames : \E password \in NewPasswords \cup ShortPasswords :
           OrderCreate(o, name, password)
    \/ \E o \in Orders : \E ok \in BOOLEAN : OrderOther(o, ok)
    \/ \E name \in SubmittedNames : \E password \in SubmittedPasswords : StepJoin(name, password)
    \/ \E name \in SubmittedNames : \E password \in NewPasswords \cup ShortPasswords :
           StepCreate(name, password)
    \/ \E mode \in {"none", ""} : StepOther(mode)
    \/ placed_order
    \/ \E o \in Orders : \E c \in CliqueIds \cup {NoClique} : \E is_admin \in BOOLEAN :
           ControlCliqueChange(o, c, is_admin)
    \/ \E c \in CliqueIds : \E name \in Names : \E password \in NewPasswords \cup ShortPasswords :
           CliqueDetail(c, name, password)
    \/ \E c \in CliqueIds : CliqueDelete(c)

SpecClique == InitClique /\ [][NextClique]_vars

\* the loops over every list length: no task run touches the database meanwhile
InitProgress ==
    /\ status = [o \in Orders |-> STATUS_PENDING]
    /\ require_approval = [o \in Orders |-> TRUE]
    /\ positions = [o \in Orders |-> Tickets(1)]
    /\ orderclique = [o \in Orders |-> NoClique]
    /\ raffle_override = [o \in Orders |-> NoOverride]
    /\ log = <<>>
    /\ calls = <<>>
    /\ run = [r \in Runs |-> OffRun]
    /\ exec = IdleExec
    /\ DeskInit

NextProgress ==
    \/ \E task \in {"raffle", "rejection"} : \E n \in 0..MaxListed : ExecStart(task, n)
    \/ ExecStep
    \/ ExecRaise
    \/ ExecReturn

SpecProgress == InitProgress /\ [][NextProgress]_vars


\* ------------------------------------------------------------- properties
RaffleRuns == {r \in Runs : run[r].task = "raffle"}
RejectionRuns == {r \in Runs : run[r].task = "rejection"}

\* the while loop of run_raffle has ended
Selected(r) == run[r].pc \in {"approve", "done"}

Eligible(r) == Range(run[r].eligible_orders)
Admitted(r) == Range(run[r].orders)

\* the eligible orders that share the unit (clique, or the order alone) of o
UnitOf(r, o) ==
    {p \in Eligible(r) : UnitKey(run[r].orderclique, p) = UnitKey(run[r].orderclique, o)}

AdmittedTickets(r) == SumSeq(run[r].orders, run[r].pcnt_subevent)

UnitTickets(r, k) == SumSeq(run[r].raffle_tickets[k], run[r].pcnt_subevent)

AdmittedUnits(r) ==
    {k \in DOMAIN run[r].raffle_tickets : Range(run[r].raffle_tickets[k]) \subseteq Admitted(r)}

LargestAdmittedUnit(r) ==
    IF AdmittedUnits(r) = {} THEN 0
    ELSE CHOOSE n \in {UnitTickets(r, k) : k \in AdmittedUnits(r)} :
             \A k \in AdmittedUnits(r) : UnitTickets(r, k) <= n

\* C1: once the selection of a raffle has ended, every unit with an eligible member
\* whose override is ALWAYS and no member whose override is NEVER has all its
\* members in orders_to_approve, for every raffle_size.
C1_AlwaysUnitsAdmitted ==
    \A r \in RaffleRuns : Selected(r) =>
        \A o \in Eligible(r) :
            (/\ \E p \in UnitOf(r, o) : run[r].raffle_override[p] = MODE_ALWAYS
             /\ \A p \in UnitOf(r, o) : run[r].raffle_override[p] # MODE_NEVER)
            => UnitOf(r, o) \subseteq Admitted(r)

\* C2: an eligible order whose override is NEVER is never in orders_to_approve, nor
\* is any eligible order of the same clique, and approve_order is called on none.
C2_NeverExcluded ==
    \A r \in RaffleRuns :
        \A o \in Eligible(r) : run[r].raffle_override[o] = MODE_NEVER =>
            LET banned == {o} \cup {p \in Eligible(r) :
                               /\ run[r].orderclique[o] # NoClique
                               /\ run[r].orderclique[p] = run[r].orderclique[o]}
            IN  /\ banned \cap Admitted(r) = {}
                /\ \A j \in 1..Len(calls) :
                       calls[j].run = r /\ calls[j].fn = "approve_order"
                       => calls[j].order \notin banned

\* a finished raffle with room for everyone, in which B (NEVER) sits in a clique
\* between A (ALWAYS, iterated before it) and C (no override, iterated after it)
C2_Witness ==
    /\ run["r1"].task = "raffle" /\ run["r1"].pc = "done"
    /\ run["r1"].eligible_orders = <<"A", "B", "C">>
    /\ run["r1"].raffle_size > 0
    /\ run["r1"].raffle_override["A"] = MODE_ALWAYS
    /\ run["r1"].raffle_override["B"] = MODE_NEVER
    /\ run["r1"].raffle_override["C"] = NoOverride
    /\ run["r1"].orderclique["A"] = "c1"
    /\ run["r1"].orderclique["B"] = "c1"
    /\ run["r1"].orderclique["C"] = "c1"
    /\ run["r1"].orders = <<>>

\* C3: at every point of the selection, each unit of the unit map has all of its
\* orders in orders_to_approve or none of them.
C3_UnitsWhole ==
    \A r \in RaffleRuns :
        \A k \in DOMAIN run[r].raffle_tickets :
            \/ Range(run[r].raffle_tickets[k]) \subseteq Admitted(r)
            \/ Range(run[r].raffle_tickets[k]) \cap Admitted(r) = {}

\* a finished raffle that admitted a clique of two orders that together exceed the
\* raffle size, and left another unit out
C3_Witness ==
    /\ run["r1"].task = "raffle" /\ run["r1"].pc = "done"
    /\ \E k \in DOMAIN run["r1"].raffle_tickets :
           /\ Len(run["r1"].raffle_tickets[k]) = 2
           /\ Range(run["r1"].raffle_tickets[k]) \subseteq Admitted("r1")
           /\ UnitTickets("r1", k) > run["r1"].raffle_size
    /\ \E k \in DOMAIN run["r1"].raffle_tickets :
           Range(run["r1"].raffle_tickets[k]) \cap Admitted("r1") = {}

\* C4: with raffle_size > 0, once the selection has ended the tickets of the admitted
\* orders exceed raffle_size by at most the tickets of the largest admitted unit, and
\* approvals_left is not below minus that size.
C4_OvershootBounded ==
    \A r \in RaffleRuns : (Selected(r) /\ run[r].raffle_size > 0) =>
        /\ AdmittedTickets(r) <= run[r].raffle_size + LargestAdmittedUnit(r)
        /\ run[r].approvals_left >= 0 - LargestAdmittedUnit(r)

\* a finished raffle that overshot its positive size
C4_Witness ==
    /\ run["r1"].task = "raffle" /\ run["r1"].pc = "done"
    /\ run["r1"].raffle_size > 0
    /\ run["r1"].approvals_left < 0
    /\ AdmittedTickets("r1") > run["r1"].raffle_size

C5_Remainder ==
    \A r \in RaffleRuns :
        /\ run[r].approvals_left = run[r].raffle_size - AdmittedTickets(r)
        /\ (Selected(r) /\ run[r].approvals_left > 0) =>
               /\ run[r].raffle_order = <<>>
               /\ \A k \in DOMAIN run[r].raffle_tickets :
                      Range(run[r].raffle_tickets[k]) \subseteq Admitted(r)
        /\ run[r].raffle_size <= 0 =>
               \A k \in DOMAIN run[r].raffle_tickets \ run[r].raffle_keys_prefer :
                   Range(run[r].raffle_tickets[k]) \cap Admitted(r) = {}

C5_Step ==
    \A r \in Runs : (run[r].pc = "select" /\ run'[r] # run[r]) =>
        /\ IF run[r].raffle_order # <<>> /\ run[r].approvals_left > 0
           THEN /\ run'[r].pc = "select"
                /\ run'[r].raffle_order = Tail(run[r].raffle_order)
                /\ run'[r].orders =
                       run[r].orders \o run[r].raffle_tickets[Head(run[r].raffle_order)]
           ELSE /\ run'[r].pc = "approve"
                /\ run'[r].orders = run[r].orders
        /\ SumSeq(run'[r].orders, run'[r].pcnt_subevent) >= AdmittedTickets(r)

\* C5: in the selection the next unit of raffle_order is admitted exactly when a unit
\* remains and the remainder (raffle_size minus the admitted tickets) is > 0; with the
\* remainder <= 0 nothing more is admitted, a raffle_size <= 0 admits no unit that is
\* not preferred, the selection ends with a remainder > 0 only with every unit
\* admitted, and the admitted ticket total never decreases.
C5_AdmitWhileRemainder == []C5_Remainder /\ [][C5_Step]_vars

\* a selection that ended on the remainder, with units left over
C5_Witness ==
    /\ run["r1"].task = "raffle" /\ run["r1"].pc = "approve"
    /\ run["r1"].raffle_size > 0
    /\ run["r1"].approvals_left = 0
    /\ run["r1"].raffle_order # <<>>
    /\ run["r1"].orders # <<>>


\* the approve_order calls that raised OrderError, and the log entries of failures
FailedApprovals == SelectSeq(calls, LAMBDA c : c.fn = "approve_order" /\ ~c.ok)
ApproveFailedLog ==
    SelectSeq(log, LAMBDA e : e.action = "pretix_cliques.raffle.approve_failed")

\* the orders run r has called fn on, in call order
CalledOn(r, fn) ==
    LET cs == SelectSeq(calls, LAMBDA c : c.run = r /\ c.fn = fn)
    IN  [j \in 1..Len(cs) |-> cs[j].order]

\* the orders a call of fn by run r succeeded on, in call order
SucceededOn(r, fn) ==
    LET cs == SelectSeq(calls, LAMBDA c : c.run = r /\ c.fn = fn /\ c.ok)
    IN  [j \in 1..Len(cs) |-> cs[j].order]

\* C6: the approve_failed log entries are, one for one and in order, the approve_order
\* calls that raised OrderError (so none for a call that succeeded), and after i
\* iterations approve_order has been called on exactly the first i admitted orders,
\* failures included; a raffle never ends as failed.
C6_FailureLoggedAndSkipped ==
    /\ Len(ApproveFailedLog) = Len(FailedApprovals)
    /\ \A j \in 1..Len(FailedApprovals) : ApproveFailedLog[j].order = FailedApprovals[j].order
    /\ \A r \in RaffleRuns :
           /\ run[r].pc # "failed"
           /\ Selected(r) => CalledOn(r, "approve_order") = SubSeq(run[r].orders, 1, run[r].i)
           /\ run[r].pc = "done" => run[r].i = Len(run[r].orders)

\* a finished raffle whose first approval failed and whose last one succeeded
C6_Witness ==
    /\ run["r1"].task = "raffle" /\ run["r1"].pc = "done"
    /\ Len(calls) = 3
    /\ ~calls[1].ok /\ calls[3].ok
    /\ Len(log) = 1 /\ log[1].order = calls[1].order

\* C7: a finished raffle returns len(orders_to_approve), which is the number of
\* approve_order calls it made, whether they succeeded or raised OrderError; before
\* that it has returned nothing.
C7_ReturnsAttempted ==
    \A r \in RaffleRuns :
        /\ run[r].pc = "done" =>
               /\ run[r].result = Len(run[r].orders)
               /\ run[r].result = Len(CalledOn(r, "approve_order"))
        /\ run[r].pc # "done" => run[r].result = NoResult

\* a finished raffle that returns 2 after two failed approvals
C7_Witness ==
    /\ run["r1"].task = "raffle" /\ run["r1"].pc = "done"
    /\ run["r1"].result = 2
    /\ Len(FailedApprovals) = 2

\* the candidates as the eligibility rules state them: pending approval, an admission
\* position that is not canceled on the subevent, none on another subevent
TicketCount(o, subevent_id) ==
    Cardinality({j \in DOMAIN positions[o] :
                    /\ ~positions[o][j].canceled
                    /\ positions[o][j].admission
                    /\ positions[o][j].subevent = subevent_id})

Candidates(subevent_id) ==
    {o \in Orders :
        /\ require_approval[o]
        /\ status[o] = STATUS_PENDING
        /\ TicketCount(o, subevent_id) >= 1
        /\ ~\E j \in DOMAIN positions[o] :
               /\ ~positions[o][j].canceled
               /\ positions[o][j].admission
               /\ positions[o][j].subevent # subevent_id}

C8_Start ==
    \A r \in Runs : (run[r].pc = "idle" /\ run'[r].pc = "deny") =>
        Range(run'[r].orders) = Candidates(run'[r].subevent_id)

C8_Denied ==
    \A r \in RejectionRuns :
        /\ SucceededOn(r, "deny_order") = SubSeq(run[r].orders, 1, run[r].i)
        /\ run[r].pc = "done" => run[r].i = Len(run[r].orders)

\* C8: run_rejection takes exactly the candidates of the raffle for the subevent
\* (none with an admission position on another subevent) and calls deny_order on
\* each of them and on no other order.
C8_RejectionDeniesCandidates == []C8_Denied /\ [][C8_Start]_vars

\* the data sets that differ from the current one in the clique memberships only, or
\* in the raffle overrides only
OtherMemberships ==
    {[cq |-> c, ov |-> raffle_override] : c \in [Orders -> CliqueIds \cup {NoClique}]}
    \cup {[cq |-> orderclique, ov |-> v] : v \in [Orders -> Modes \cup {NoOverride}]}

C9_Start ==
    \A r \in Runs : (run[r].pc = "idle" /\ run'[r].pc = "deny") =>
        \A d \in OtherMemberships :
            run'[r].orders = RejectionOrders(status, require_approval, positions,
                                             d.cq, d.ov, run'[r].subevent_id)

\* C9: the orders run_rejection takes are the same for every other assignment of
\* clique memberships and for every other assignment of raffle overrides, and the
\* orders it denies are those it took.
C9_RejectionIgnoresCliques == []C8_Denied /\ [][C9_Start]_vars

\* a finished rejection that denied a clique with an ALWAYS and a NEVER member
C9_Witness ==
    /\ run["r1"].task = "rejection" /\ run["r1"].pc = "done"
    /\ SucceededOn("r1", "deny_order") = <<"A", "B", "C">>
    /\ raffle_override["A"] = MODE_ALWAYS /\ raffle_override["B"] = MODE_NEVER
    /\ orderclique["A"] = "c1" /\ orderclique["B"] = "c1" /\ orderclique["C"] = NoClique

C10_Start ==
    \A r \in Runs : (run[r].pc = "idle" /\ run'[r].pc = "select") =>
        /\ Range(run'[r].eligible_orders) = Candidates(run'[r].subevent_id)
        /\ \A o \in Candidates(run'[r].subevent_id) :
               /\ run'[r].pcnt_subevent[o] = TicketCount(o, run'[r].subevent_id)
               /\ run'[r].pcnt_subevent[o] >= 1

C10_Consume ==
    \A r \in Runs : (run[r].pc = "select" /\ run'[r].pc = "select" /\ run'[r] # run[r]) =>
        run[r].approvals_left - run'[r].approvals_left =
            SumSeq(run[r].raffle_tickets[Head(run[r].raffle_order)],
                   [o \in Orders |-> TicketCount(o, run[r].subevent_id)])

\* C10: the eligible_orders of run_raffle are exactly the orders pending approval with
\* an admission position that is not canceled on the subevent and none on another
\* subevent; each carries the count of those positions, which is >= 1, and admitting
\* a unit lowers approvals_left by the counts of its orders.
C10_CandidatesAndTickets == [][C10_Start /\ C10_Consume]_vars

\* a selection over A and B: A counts 1 for its one position that is not canceled,
\* C is left out for its position on the other subevent
C10_Witness ==
    /\ run["r1"].task = "raffle" /\ run["r1"].pc = "approve"
    /\ run["r1"].subevent_id = 1
    /\ run["r1"].eligible_orders = <<"A", "B">>
    /\ positions["A"] = <<Position(1, TRUE, FALSE), Position(1, TRUE, TRUE)>>
    /\ positions["C"] = <<Position(1, TRUE, FALSE), Position(2, TRUE, FALSE)>>
    /\ run["r1"].pcnt_subevent["A"] = 1
    /\ "A" \in Admitted("r1")
    /\ run["r1"].approvals_left = run["r1"].raffle_size - Len(run["r1"].orders)

\* ---------------------------------------------------------------- C11
NeverOrders(r) == {o \in Eligible(r) : run[r].raffle_override[o] = MODE_NEVER}

\* the eligible orders of a clique that holds an eligible order with MODE_NEVER
VetoedOrders(r) ==
    {o \in Eligible(r) :
        /\ run[r].orderclique[o] # NoClique
        /\ \E p \in NeverOrders(r) : run[r].orderclique[p] = run[r].orderclique[o]}

GroupedOrders(r) ==
    UNION {Range(run[r].raffle_tickets[k]) : k \in DOMAIN run[r].raffle_tickets}

NoDuplicates(s) == \A j, k \in 1..Len(s) : s[j] = s[k] => j = k

\* C11: once run_raffle has grouped the orders, each order of the unit map sits once,
\* in the list keyed by its clique, or by its own code when it has no clique; the lists
\* together hold the eligible orders but the MODE_NEVER orders and the members of a
\* clique with a MODE_NEVER order; every preferred key is a key of the map.
C11_UnitsPartition ==
    \A r \in RaffleRuns :
        /\ \A k \in DOMAIN run[r].raffle_tickets :
               /\ NoDuplicates(run[r].raffle_tickets[k])
               /\ run[r].raffle_tickets[k] # <<>>
               /\ \A o \in Range(run[r].raffle_tickets[k]) : UnitKey(run[r].orderclique, o) = k
        /\ GroupedOrders(r) = (Eligible(r) \ NeverOrders(r)) \ VetoedOrders(r)
        /\ run[r].raffle_keys_prefer \subseteq DOMAIN run[r].raffle_tickets

\* A and B share clique c1 and B is preferred, C sits in clique c2 with no partner
\* left: the map has the two-member list of c1, which is a preferred key
C11_Witness ==
    /\ run["r1"].task = "raffle" /\ run["r1"].pc = "select"
    /\ run["r1"].eligible_orders = <<"A", "B", "C">>
    /\ run["r1"].orderclique = [o \in Orders |-> IF o = "C" THEN "c2" ELSE "c1"]
    /\ run["r1"].raffle_override["B"] = MODE_ALWAYS
    /\ run["r1"].raffle_tickets[<<"clique", "c1">>] = <<"A", "B">>
    /\ run["r1"].raffle_keys_prefer = {<<"clique", "c1">>}
    /\ DOMAIN run["r1"].raffle_tickets = {<<"clique", "c1">>, <<"clique", "c2">>}

\* ---------------------------------------------------------------- C12
C12_Start == (exec.pc = "idle" /\ exec'.pc = "loop") => exec'.progress = <<0>>

\* exec'.i orders are done when the step ends
C12_Cadence ==
    (exec.pc = "loop" /\ exec'.i = exec.i + 1) =>
        exec'.progress =
            IF exec'.i % ProgressEvery = 0
            THEN Append(exec.progress, Percent(exec'.i, exec.n))
            ELSE exec.progress

\* C12: a task reports progress when it starts and then each time another
\* ProgressEvery orders are done, and the value reported is the number of orders done
\* at that moment over the length of the list, as a percentage.
C12_ProgressEveryFifty == [][C12_Start /\ C12_Cadence]_vars

\* ---------------------------------------------------------------- C13
NonDecreasing(s) == \A j \in 1..Len(s) - 1 : s[j] <= s[j + 1]

C13_Values ==
    /\ NonDecreasing(exec.progress)
    /\ \A j \in 1..Len(exec.progress) : exec.progress[j] \in 0..10000

C13_Result ==
    exec.result # NoResult => (exec.pc = "done" /\ exec.i = exec.n /\ exec.result = exec.i)

\* no value is reported once the result is there
C13_ResultLast ==
    exec'.progress # exec.progress => (exec.result = NoResult /\ exec'.result = NoResult)

\* C13: the values a run reports never decrease and lie between 0 and 100 percent;
\* the result comes after the last of them and is the number of orders the loop went
\* through.
C13_ProgressMonotonic == [](C13_Values /\ C13_Result) /\ [][C13_ResultLast]_vars

\* a raffle over 101 orders: 0 at the start, then 0, 49.5 and 99.01 percent
C13_Witness ==
    /\ exec.pc = "done" /\ exec.task = "raffle"
    /\ exec.n = 101 /\ exec.result = 101
    /\ exec.progress = <<0, 0, 4950, 9901>>

\* ---------------------------------------------------------------- C14
\* the orders pending approval with an admission position on the subevent
PendingOn(subevent_id) ==
    {o \in Orders :
        require_approval[o] /\ status[o] = STATUS_PENDING /\ TicketCount(o, subevent_id) >= 1}

C14_Start ==
    \A r \in Runs :
        /\ (run[r].pc = "idle" /\ run'[r].pc = "select"
                /\ Candidates(run'[r].subevent_id) = {}) => run'[r].eligible_orders = <<>>
        /\ (run[r].pc = "idle" /\ run'[r].pc = "deny"
                /\ PendingOn(run'[r].subevent_id) = {}) => run'[r].orders = <<>>

EmptyRun(r) ==
    \/ run[r].task = "raffle" /\ run[r].eligible_orders = <<>>
    \/ run[r].task = "rejection" /\ run[r].orders = <<>>

C14_Empty ==
    \A r \in Runs : EmptyRun(r) =>
        /\ run[r].pc # "failed"
        /\ run[r].orders = <<>>
        /\ \A j \in 1..Len(calls) : calls[j].run # r
        /\ \A j \in 1..Len(run[r].progress) : run[r].progress[j] = 0
        /\ run[r].pc = "done" => run[r].result = 0

CalledOrders(r) == {calls[j].order : j \in {k \in 1..Len(calls) : calls[k].run = r}}
SucceededOrders(r) ==
    {calls[j].order : j \in {k \in 1..Len(calls) : calls[k].run = r /\ calls[k].ok}}

\* the orders the query of run r returned
QueryResult(r) == IF run[r].task = "raffle" THEN Eligible(r) ELSE Range(run[r].orders)

\* C15: a run that begins after another run on the same subevent has ended never
\* calls approve_order or deny_order on an order the earlier run approved or denied;
\* of the orders the earlier run worked on, its query returns those whose call failed.
C15_RerunSafe ==
    \A r \in RaffleRuns \cup RejectionRuns : \A q \in run[r].earlier :
        (q \in RaffleRuns \cup RejectionRuns /\ run[q].subevent_id = run[r].subevent_id) =>
            /\ CalledOrders(r) \cap SucceededOrders(q) = {}
            /\ QueryResult(r) \cap CalledOrders(q) = CalledOrders(q) \ SucceededOrders(q)

\* r1 approved A and failed on B; r2, begun after r1 had ended, has called
\* approve_order on B
C15_Witness ==
    /\ run["r1"].task = "raffle" /\ run["r1"].pc = "done"
    /\ run["r2"].task = "raffle" /\ run["r2"].earlier = {"r1"}
    /\ run["r1"].subevent_id = run["r2"].subevent_id
    /\ SucceededOrders("r1") = {"A"}
    /\ CalledOrders("r1") = {"A", "B"}
    /\ "B" \in CalledOrders("r2")
    /\ "A" \notin Eligible("r2")

\* ---------------------------------------------------------------- C16
\* C16: a raffle started from the form with a subevent, a raffle size and a max_addons
\* value begins run_raffle with that subevent and raffle size, and does so alike for
\* every max_addons value.
C16_FormStartsRaffle ==
    [][\A r \in Runs : \A s \in Subevents : \A n \in RaffleSizes : \A m \in MaxAddons :
           FormValid(r, s, n, m) => StartRaffle(r, s, n)]_vars

\* ---------------------------------------------------------------- C17
Preferred(r, o) == UnitKey(run[r].orderclique, o) \in run[r].raffle_keys_prefer

C17_Order(r) ==
    LET os == run[r].orders
    IN  /\ NoDuplicates(os)
        /\ \A j, k \in 1..Len(os) : (j < k /\ Preferred(r, os[k])) => Preferred(r, os[j])
        /\ \A j, k \in 1..Len(os) :
               (j < k /\ UnitKey(run[r].orderclique, os[j]) = UnitKey(run[r].orderclique, os[k]))
                   => \A l \in j..k :
                          UnitKey(run[r].orderclique, os[l]) = UnitKey(run[r].orderclique, os[j])

\* C17: run_raffle calls approve_order on the admitted orders in the order of the list,
\* once each: the orders of the preferred units come before all others, the orders of
\* one unit follow each other, and when the run has ended every admitted order has had
\* its one call.
C17_ApproveInListOrder ==
    \A r \in RaffleRuns : Selected(r) =>
        /\ C17_Order(r)
        /\ CalledOn(r, "approve_order") = SubSeq(run[r].orders, 1, run[r].i)
        /\ run[r].pc = "done" => CalledOn(r, "approve_order") = run[r].orders

\* C is preferred and alone, A and B share a clique: C was called first, then A and B
C17_Witness ==
    /\ run["r1"].task = "raffle" /\ run["r1"].pc = "done"
    /\ run["r1"].raffle_keys_prefer = {<<"order", "C">>}
    /\ run["r1"].orderclique["A"] = "c1" /\ run["r1"].orderclique["B"] = "c1"
    /\ Len(calls) = 3
    /\ calls[1].order = "C" /\ calls[2].order = "A" /\ calls[3].order = "B"

\* ---------------------------------------------------------------- C18
\* C18: when a raffle has ended, the orders of each unit of the unit map (the eligible
\* members of a clique that no MODE_NEVER order bans, or a single order) are either
\* all approved or all not approved, also when approve_order raised OrderError.
C18_NoCliqueSplit ==
    \A r \in RaffleRuns : run[r].pc = "done" =>
        \A k \in DOMAIN run[r].raffle_tickets :
            \/ Range(run[r].raffle_tickets[k]) \subseteq SucceededOrders(r)
            \/ Range(run[r].raffle_tickets[k]) \cap SucceededOrders(r) = {}

\* ---------------------------------------------------------------- C19
CallsOf(r) == SelectSeq(calls, LAMBDA c : c.run = r)

\* a deny_order call that raised is the last call of its run, which has failed
C19_Raised ==
    \A j \in 1..Len(calls) : (calls[j].fn = "deny_order" /\ ~calls[j].ok) =>
        /\ run[calls[j].run].pc = "failed"
        /\ \A k \in j + 1..Len(calls) : calls[k].run # calls[j].run

C19_Failed ==
    \A r \in RejectionRuns : run[r].pc = "failed" =>
        /\ run[r].result = NoResult
        /\ run[r].i < Len(run[r].orders)
        /\ CalledOn(r, "deny_order") = SubSeq(run[r].orders, 1, run[r].i + 1)
        /\ SucceededOn(r, "deny_order") = SubSeq(run[r].orders, 1, run[r].i)
        /\ \A j \in 1..run[r].i : status[run[r].orders[j]] = STATUS_CANCELED

\* a failed run takes no further step
C19_Stops ==
    \A r \in RejectionRuns : run[r].pc = "failed" =>
        (run'[r] = run[r] /\ SelectSeq(calls', LAMBDA c : c.run = r) = CallsOf(r))

\* C19: a deny_order call that raises ends run_rejection as failed: the orders behind
\* it in the list get no call, no further progress value and no count follow, and the
\* orders denied before it stay canceled.
C19_RejectionAborts == [](C19_Raised /\ C19_Failed) /\ [][C19_Stops]_vars

\* r1 denied A, failed on B and never reached C; r2, begun before r1 failed, has
\* approved C
C19_Witness ==
    /\ run["r1"].task = "rejection" /\ run["r1"].pc = "failed"
    /\ run["r1"].orders = <<"A", "B", "C">>
    /\ run["r1"].i = 1
    /\ status["A"] = STATUS_CANCELED /\ status["B"] = STATUS_PENDING
    /\ run["r2"].task = "raffle" /\ "r1" \notin run["r2"].earlier
    /\ SucceededOrders("r2") = {"C"}
    /\ CalledOrders("r1") = {"A", "B"}

\* ---------------------------------------------------------------- C20
\* one of the two runs had ended when the other began
Serialized == "r1" \in run["r2"].earlier \/ "r2" \in run["r1"].earlier

\* two raffles started for the same subevent with the same raffle_size, both past
\* their selection
SameQuota ==
    /\ RaffleRuns = Runs
    /\ run["r1"].subevent_id = run["r2"].subevent_id
    /\ run["r1"].raffle_size = run["r2"].raffle_size
    /\ Selected("r1") /\ Selected("r2")

Max(S) == IF S = {} THEN 0 ELSE CHOOSE x \in S : \A y \in S : y <= x

LargestUnit(r) == Max({UnitTickets(r, k) : k \in DOMAIN run[r].raffle_tickets})

\* together the two lists hold more tickets than raffle_size plus the largest unit
QuotaExceeded ==
    AdmittedTickets("r1") + AdmittedTickets("r2") >
        run["r1"].raffle_size + Max({LargestUnit("r1"), LargestUnit("r2")})

\* an order has had approve_order called by both runs
CalledByBoth == CalledOrders("r1") \cap CalledOrders("r2") # {}

\* an order approved by one run has then had approve_order called by the other run
ApprovedThenCalled ==
    \E j, k \in 1..Len(calls) :
        /\ j < k
        /\ calls[j].fn = "approve_order" /\ calls[j].ok
        /\ calls[k].fn = "approve_order"
        /\ calls[k].order = calls[j].order
        /\ calls[k].run # calls[j].run

\* the claim as stated: two raffles on one quota that follow each other never
\* reach a state where their lists together exceed the quota by more than the largest
\* unit and one order has had approve_order from both
C20_SerializedNeverDouble == (SameQuota /\ Serialized) => ~(QuotaExceeded /\ CalledByBoth)

\* C20: of two raffles on one subevent, the later one never admits an order the
\* earlier one approved when the earlier had ended before the later began, so an order
\* that one run approved gets approve_order from the other only when the runs overlap.
C20_SerializedSeesApprovals ==
    /\ \A r \in RaffleRuns : \A q \in run[r].earlier \cap RaffleRuns :
           run[q].subevent_id = run[r].subevent_id => Admitted(r) \cap SucceededOrders(q) = {}
    /\ (RaffleRuns = Runs /\ ApprovedThenCalled) => ~Serialized

\* two overlapping raffles of size 1 both admitted A with its two tickets: one approved
\* it, then the other called approve_order on it as well
C20_Witness ==
    /\ SameQuota /\ ~Serialized
    /\ run["r1"].raffle_size = 1
    /\ run["r1"].orders = <<"A">> /\ run["r2"].orders = <<"A">>
    /\ run["r1"].pcnt_subevent["A"] = 2
    /\ QuotaExceeded
    /\ ApprovedThenCalled

\* ---------------------------------------------------------------- C21
\* C21: two runs for different subevents never call approve_order or deny_order on
\* the same order, however their steps interleave.
C21_SubeventsIndependent ==
    \A j, k \in 1..Len(calls) :
        (/\ calls[j].run # calls[k].run
         /\ run[calls[j].run].subevent_id # run[calls[k].run].subevent_id)
            => calls[j].order # calls[k].order

\* ---------------------------------------------------------------- C23
Running(r) == run[r].pc \in {"select", "approve", "deny"}

\* what is left to do: the keys to pop, then the orders to call
C23_Variant ==
    \A r \in Runs : (Running(r) /\ run'[r] # run[r]) =>
        \/ /\ run[r].pc = "select" /\ run'[r].pc = "select"
           /\ Len(run'[r].raffle_order) = Len(run[r].raffle_order) - 1
        \/ /\ run[r].pc = "select" /\ run'[r].pc = "approve"
        \/ /\ run[r].pc \in {"approve", "deny"} /\ run'[r].pc = run[r].pc
           /\ run'[r].i = run[r].i + 1 /\ run'[r].i <= Len(run[r].orders)
        \/ /\ run[r].pc \in {"approve", "deny"} /\ run'[r].pc = "done"
           /\ run'[r].result = Len(run[r].orders)
        \/ /\ run[r].pc = "deny" /\ run'[r].pc = "failed"

\* C23: a run of run_raffle or run_rejection that has begun ends, with a count
\* returned or with a failure: each turn of the selection loop takes one key off the
\* list, each turn of the call loop moves on by one order, and no step waits for
\* anything else.
C23_Terminates ==
    /\ \A r \in Runs : Running(r) ~> (run[r].pc \in {"done", "failed"})
    /\ [][C23_Variant]_vars

\* a raffle of size MaxRaffleSize over three orders has ended with one key left on
\* the list and two orders called
C23_Witness ==
    /\ run["r1"].task = "raffle" /\ run["r1"].pc = "done"
    /\ run["r1"].raffle_size = MaxRaffleSize
    /\ Len(run["r1"].eligible_orders) = 3
    /\ Len(run["r1"].raffle_order) = 1
    /\ run["r1"].result = 2

\* ---------------------------------------------------------------- C22
\* the mode the raffle goes by
EffectiveMode(ov, o) == IF ov[o] = NoOverride THEN MODE_NORMAL ELSE ov[o]

C22_Table ==
    /\ \A w \in overrides : w.mode \in Modes
    /\ \A o \in Orders : Cardinality({w \in overrides : w.order = o}) <= 1
    /\ \A o \in Orders : raffle_override[o] = OverrideOf(overrides, o)
    /\ \A o \in Orders : EffectiveMode(raffle_override, o) \in Modes
    /\ \A r \in RaffleRuns : run[r].pc # "failed"

\* the grouping is the one of the data set with MODE_NORMAL rows filled in, and an
\* order without clique that is not banned is a unit of its own
C22_Start ==
    \A r \in Runs : (run[r].pc = "idle" /\ run'[r].pc = "select") =>
        LET ov == run'[r].raffle_override
            cq == run'[r].orderclique
            g == Grouping(run'[r].eligible_orders, cq, [o \in Orders |-> EffectiveMode(ov, o)])
        IN  /\ ov = raffle_override
            /\ run'[r].raffle_tickets = g.raffle_tickets
            /\ run'[r].raffle_keys_prefer = g.raffle_keys_prefer
            /\ \A o \in Range(run'[r].eligible_orders) :
                   (cq[o] = NoClique /\ ov[o] # MODE_NEVER) =>
                       run'[r].raffle_tickets[<<"order", o>>] = <<o>>

\* C22: every stored override mode is one of ALWAYS, NEVER, NORMAL, an unknown or
\* missing submitted mode being stored as NORMAL; an order never has two override
\* rows; run_raffle groups an order without override row like one with NORMAL and an
\* order without clique as a unit of its own, and does not fail.
C22_ModesNormalised == []C22_Table /\ [][C22_Start]_vars

\* two changes have left A with a NORMAL row and the others with none; the raffle begun
\* afterwards had the clique of A and B and the order C as its units
C22_Witness ==
    /\ ChangesLogged = 2
    /\ overrides = {[order |-> "A", mode |-> MODE_NORMAL]}
    /\ run["r1"].task = "raffle" /\ run["r1"].pc = "done"
    /\ run["r1"].raffle_override["A"] = MODE_NORMAL
    /\ run["r1"].raffle_override["C"] = NoOverride
    /\ DOMAIN run["r1"].raffle_tickets = {<<"clique", "c1">>, <<"order", "C">>}

\* C24: after any sequence of clique operations (placement from the cart, the join,
\* create and leave actions of the order page, the control-panel change, the
\* deletion of a clique) every order has at most one membership row, and that row
\* is of a clique that exists; a join or create for an order that has a membership
\* adds none.
C24_AtMostOneClique ==
    /\ \A o \in Orders : Cardinality({w \in memberships : w.order = o}) <= 1
    /\ \A w \in memberships : cliques[w.clique].state = "live"
    /\ orderclique = Accessor(memberships)

\* an order that is in a clique has asked to join or create once more and got the
\* IntegrityError, while the order placed from the cart is in a clique as well
C24_Witness ==
    /\ response.answer = "IntegrityError"
    /\ \E w \in memberships : w.order \in {"A", "B"}
    /\ HasMembership(memberships, "C")

\* what a step leaves of the cliques when it changes at most passwords
SameButPasswords == \A c \in CliqueKeys : cliques'[c] = [cliques[c] EXCEPT !.password = cliques'[c].password]

\* the step changes no membership, no clique's name, and a password only of the
\* clique that o is an admin of
ChangedAsAdmin(o) ==
    /\ memberships' = memberships
    /\ SameButPasswords
    /\ \A c \in CliqueKeys :
           cliques'[c].password # cliques[c].password =>
               [order |-> o, clique |-> c, is_admin |-> TRUE] \in memberships

C25_Change ==
    \A o \in Orders : \A password \in SubmittedPasswords :
        ChangedAsAdmin(o) \/ ~OrderChange(o, password)

\* C25: the change action of the order page changes the password of a clique only
\* when the asking order has a membership with is_admin, and then of that clique:
\* asked by a member that is no admin, or by an order in no clique, it leaves every
\* password as it was; it never changes a clique's name or a membership.
C25_OnlyAdminChangesPassword == [][C25_Change]_vars

\* B, a member of c1 that is no admin, has asked for a new password and was told it
\* was changed, and c1 has the password it had
C25_Witness ==
    /\ response.answer = "redirect"
    /\ log = <<[order |-> "B", action |-> "pretix_cliques.order.changed"]>>
    /\ [order |-> "B", clique |-> "c1", is_admin |-> FALSE] \in memberships
    /\ [order |-> "A", clique |-> "c1", is_admin |-> TRUE] \in memberships
    /\ cliques["c1"].password = "p1"

\* clique c is a clique of the event with the submitted name and password
Matches(c, name, password) ==
    /\ cliques[c].state = "live" /\ cliques[c].event = ThisEvent
    /\ cliques[c].name = name /\ cliques[c].password = password

\* a join step of the order page for o: a membership is new only if it is o's in
\* the clique that matches, and without a match the answer is the error and
\* no membership is made
JoinedOnMatch(o, name, password) ==
    /\ memberships' # memberships =>
           \E c \in CliqueKeys :
               /\ Matches(c, name, password)
               /\ memberships' = memberships \cup {[order |-> o, clique |-> c, is_admin |-> FALSE]}
    /\ (\A c \in CliqueKeys : ~Matches(c, name, password)) =>
           /\ response'.answer = "error"
           /\ memberships' = memberships

\* a join step of the checkout: the cart keeps the clique that matches, no other
ChosenOnMatch(name, password) ==
    /\ memberships' = memberships
    /\ cart'.clique_join # cart.clique_join =>
           \E c \in CliqueKeys : Matches(c, name, password) /\ cart'.clique_join = c
    /\ (\A c \in CliqueKeys : ~Matches(c, name, password)) =>
           /\ response'.answer = "error"
           /\ cart'.clique_join = cart.clique_join

\* the placement of a cart in join mode adds at most the membership of the placed
\* order in the clique the cart kept
PlacedAsChosen ==
    cart.clique_mode = "join" =>
        memberships' \subseteq
            memberships \cup {[order |-> "C", clique |-> cart.clique_join, is_admin |-> FALSE]}

\* an error answer to a request that made no membership and left the cart's clique
\* satisfies each of the three
QuietError ==
    /\ response'.answer = "error"
    /\ memberships' = memberships
    /\ cart'.clique_join = cart.clique_join

C26_Join ==
  \/ QuietError
  \/
    /\ \A o \in Orders : \A name \in SubmittedNames : \A password \in SubmittedPasswords :
           OrderJoin(o, name, password) => JoinedOnMatch(o, name, password)
    /\ \A name \in SubmittedNames : \A password \in SubmittedPasswords :
           StepJoin(name, password) => ChosenOnMatch(name, password)
    /\ placed_order => PlacedAsChosen

\* C26: through the join form an order becomes a member of a clique only if the
\* submitted name is the name of a clique of the same event and the submitted
\* password equals the password stored for it (a clique without password is joined
\* with an empty password only); a submission with an unknown name or another
\* password is answered with the error and creates no membership, on the order page
\* and in the checkout, where the placement joins the clique an accepted submission
\* left in the cart.
C26_JoinNeedsNameAndPassword == [][C26_Join]_vars

\* B has joined c1 on the order page and C through the checkout
C26_Witness ==
    /\ [order |-> "B", action |-> "pretix_cliques.order.joined"] \in {log[k] : k \in 1..Len(log)}
    /\ [order |-> "B", clique |-> "c1", is_admin |-> FALSE] \in memberships
    /\ [order |-> "C", clique |-> "c1", is_admin |-> FALSE] \in memberships
    /\ cart.placed
====
